---- MODULE Spec2Model ----
(***************************************************************************)
(* PyTestAI: generate_test_cases (PyTestAI/PyTestAI/generator.py) and the  *)
(* helpers get_api_key and clean_api_response (PyTestAI/utils.py).         *)
(*                                                                         *)
(* Text is a sequence of one-character strings, so that strip, splitlines, *)
(* startswith, re.sub, str.replace, re.findall and re.split are computed   *)
(* character by character, as Python computes them.                        *)
(***************************************************************************)
EXTENDS Integers, Sequences, FiniteSets, TLC

VARIABLES
    pc,          \* position in generate_test_cases / clean_api_response
    src_file,    \* the input file: "missing", "badutf8" or "ok"
    env_key,     \* the DEEPSEEK_API_KEY environment variable
    api_key,     \* local api_key of generate_test_cases
    attempt,     \* loop variable of the retry loop (0 before the loop)
    outcomes,    \* what each requests.post call produced, in order
    sleeps,      \* number of time.sleep(5) calls made
    response,    \* local response: its status code and body
    test_code,   \* local test_code
    out_file,    \* the file <parent-dir>/test_<name> on disk
    out_file0,   \* that file as it was when the run started
    writes,      \* number of times the output file was opened for writing
    error,       \* the exception that left the function, if any
    result,      \* the returned path, if any
    api_response,   \* argument of clean_api_response
    segments,       \* how api_response was put together: prose and code spans
    code_blocks,    \* local code_blocks of clean_api_response
    non_code_parts, \* local non_code_parts of clean_api_response
    commented_text, \* local commented_text of clean_api_response
    cleaned_code    \* local cleaned_code of clean_api_response; the return value

vars == << pc, src_file, env_key, api_key, attempt, outcomes, sleeps, response,
           test_code, out_file, out_file0, writes, error, result,
           api_response, segments, code_blocks, non_code_parts,
           commented_text, cleaned_code >>

genVars == << src_file, env_key, api_key, attempt, outcomes, sleeps, response,
              test_code, out_file, out_file0, writes, error, result >>

altVars == << api_response, segments, code_blocks, non_code_parts,
              commented_text, cleaned_code >>

-----------------------------------------------------------------------------
(* Bounds of the model.                                                    *)

\* Longest model reply, in tokens of ReplyTokens.
MaxTokens == 3

\* Most spans (prose, code, prose, ...) of a clean_api_response argument.
MaxSegments == 3

-----------------------------------------------------------------------------
(* Python str helpers.                                                     *)

\* The line break.
NL == "\n"

\* The backtick character (written out: the lexer rejects it in a string).
BT == "BT"

\* Characters str.strip() removes and str.strip() of a line tests for.
Whitespace == {" ", NL}

\* Characters the regular expression class \w matches.
WordChars == {"a", "b", "c", "d", "e", "f", "g", "h", "i", "j", "k", "l", "m",
              "n", "o", "p", "q", "r", "s", "t", "u", "v", "w", "x", "y", "z",
              "0", "1", "2", "3", "4", "5", "6", "7", "8", "9", "_"}

Drop(s, n) == SubSeq(s, n + 1, Len(s))

Take(s, n) == SubSeq(s, 1, n)

RECURSIVE LStrip(_)
LStrip(s) ==
    IF s # << >> /\ Head(s) \in Whitespace THEN LStrip(Tail(s)) ELSE s

RECURSIVE RStrip(_)
RStrip(s) ==
    IF s # << >> /\ s[Len(s)] \in Whitespace
    THEN RStrip(Take(s, Len(s) - 1)) ELSE s

\* str.strip()
Strip(s) == RStrip(LStrip(s))

\* str.startswith(p)
StartsWith(s, p) == Len(s) >= Len(p) /\ Take(s, Len(p)) = p

\* p in s
RECURSIVE Contains(_, _)
Contains(s, p) ==
    IF Len(s) < Len(p) THEN FALSE
    ELSE StartsWith(s, p) \/ Contains(Tail(s), p)

\* str.splitlines(): the lines without their line breaks; a final line break
\* opens no empty last line.
RECURSIVE SplitLinesFrom(_, _)
SplitLinesFrom(s, cur) ==
    IF s = << >> THEN (IF cur = << >> THEN << >> ELSE << cur >>)
    ELSE IF Head(s) = NL THEN << cur >> \o SplitLinesFrom(Tail(s), << >>)
    ELSE SplitLinesFrom(Tail(s), Append(cur, Head(s)))

SplitLines(s) == SplitLinesFrom(s, << >>)

\* sep.join(parts)
RECURSIVE Join(_, _)
Join(sep, parts) ==
    IF parts = << >> THEN << >>
    ELSE IF Len(parts) = 1 THEN parts[1]
    ELSE parts[1] \o sep \o Join(sep, Tail(parts))

RECURSIVE Flatten(_)
Flatten(ss) == IF ss = << >> THEN << >> ELSE Head(ss) \o Flatten(Tail(ss))

RECURSIVE SeqsUpTo(_, _)
SeqsUpTo(S, n) ==
    IF n = 0 THEN {<< >>}
    ELSE LET shorter == SeqsUpTo(S, n - 1)
         IN  shorter \cup {Append(q, x) : q \in shorter, x \in S}

-----------------------------------------------------------------------------
(* Inputs: the environment, the API's replies.                             *)

MAX_RETRIES == 3

\* Pieces a model reply is put together from: fence markers, parts of and
\* the whole word "bash", a definition keyword, a comment marker, white
\* space and a plain word.
ReplyTokens ==
    { << BT, BT, BT >>, << BT, BT >>, << BT >>,
      << "b", "a", "s", "h" >>, << "b", "a" >>, << "s", "h" >>,
      << "d", "e", "f" >>, << "#" >>, << " " >>, << NL >>, << "x" >> }

ReplyTexts == {Flatten(q) : q \in SeqsUpTo(ReplyTokens, MaxTokens)}

\* Status codes the transport may answer with.
StatusCodes == {200, 201, 300, 404, 429, 503}

\* What one requests.post call produces: a response with a status code, or
\* an exception of the transport.
Answered(status) == [status |-> status]

Failed(kind) == [exc |-> kind]

HasStatus(o) == DOMAIN o = {"status"}

PostOutcomes == {Answered(c) : c \in StatusCodes} \cup {Failed("ConnectionError")}

\* JSON values, tagged by the name of their only field.
JNull == [null |-> TRUE]

JStr(s) == [str |-> s]

JList(q) == [list |-> q]

\* A JSON object is its set of << key, value >> pairs.
JDict(d) == [dict |-> d]

IsStr(j) == DOMAIN j = {"str"}

IsList(j) == DOMAIN j = {"list"}

IsDict(j) == DOMAIN j = {"dict"}

ContentValues == {JNull} \cup {JStr(t) : t \in ReplyTexts}

MessageValues ==
    {JNull, JDict({})} \cup {JDict({<< "content", c >>}) : c \in ContentValues}

ChoiceValues ==
    {JNull, JDict({})} \cup {JDict({<< "message", m >>}) : m \in MessageValues}

ChoicesValues ==
    {JNull, JList(<< >>), JDict({})} \cup {JList(<< e >>) : e \in ChoiceValues}

JsonValues ==
    {JNull, JList(<< >>), JDict({})}
        \cup {JDict({<< "choices", c >>}) : c \in ChoicesValues}

\* A response body: text that is no JSON, or a JSON value.
NotJson == [notjson |-> TRUE]

JsonBody(j) == [json |-> j]

Bodies == {NotJson} \cup {JsonBody(j) : j \in JsonValues}

\* The body of a response nobody has read yet.
Unread == [unread |-> TRUE]

NoResponse == [status |-> 0, body |-> Unread]

\* The environment variable: unset, or set to a value.
EnvUnset == [set |-> FALSE, value |-> << >>]

EnvSet(s) == [set |-> TRUE, value |-> s]

EnvValues ==
    {EnvUnset, EnvSet(<< >>), EnvSet(<< " " >>), EnvSet(<< NL, " " >>),
     EnvSet(<< " ", "k", " " >>)}

\* The output file: absent, or holding a text.
NoFile == [exists |-> FALSE, text |-> << >>]

FileWith(t) == [exists |-> TRUE, text |-> t]

OldFile == FileWith(<< "o", "l", "d" >>)

NoError == [kind |-> "none", from |-> "none"]

Raised(kind, from) == [kind |-> kind, from |-> from]

-----------------------------------------------------------------------------
(* utils.get_api_key                                                       *)

\* os.getenv(name, default)
GetEnv(env, default) == IF env.set THEN env.value ELSE default

\* Mutant: the key is read without .strip().
ReadApiKey_NoStrip(env) == GetEnv(env, << >>)

\* The key get_api_key reads: os.getenv("DEEPSEEK_API_KEY", "").strip()
ReadApiKey(env) == Strip(GetEnv(env, << >>))

\* get_api_key raises ValueError when the key it read is empty.
ApiKeyMissing(env) == ReadApiKey(env) = << >>

-----------------------------------------------------------------------------
(* generate_test_cases: the response and its content                       *)

\* Mutant: only a server error status raises.
RaisesForStatus_ServerOnly(status) == 500 <= status /\ status < 600

\* response.raise_for_status() raises HTTPError for a client or server error
\* status and returns for every other status.
RaisesForStatus(status) == 400 <= status /\ status < 600

\* Mutant: the loop retries after every error status.
IsRateLimited_AnyError(status) == status >= 400

\* The retry loop goes on after a response with this status.
IsRateLimited(status) == status = 429

\* dict.get(key, default)
Get(j, key, default) ==
    IF \E p \in j.dict : p[1] = key
    THEN (CHOOSE p \in j.dict : p[1] = key)[2]
    ELSE default

Ok(v) == [ok |-> v]

Exc(kind) == [exc |-> kind]

IsOk(r) == DOMAIN r = {"ok"}

\* x[0]
Index0(j) ==
    IF IsList(j) THEN (IF j.list = << >> THEN Exc("IndexError") ELSE Ok(j.list[1]))
    ELSE IF IsStr(j)
         THEN (IF j.str = << >> THEN Exc("IndexError") ELSE Ok(JStr(<< j.str[1] >>)))
    ELSE IF IsDict(j) THEN Exc("KeyError")
    ELSE Exc("TypeError")

\* x.get(key, default), of any value x
GetAttr(j, key, default) ==
    IF IsDict(j) THEN Ok(Get(j, key, default)) ELSE Exc("AttributeError")

\* x.strip(), of any value x
StripAttr(j) == IF IsStr(j) THEN Ok(Strip(j.str)) ELSE Exc("AttributeError")

\* The body of the try block: response.json(), the chain of .get and [0],
\* .strip(), and the ValueError for empty content.
ExtractContent(body) ==
    IF body = NotJson THEN Exc("ValueError")
    ELSE
    LET choices == GetAttr(body.json, "choices", JList(<< JDict({}) >>))
    IN  IF ~IsOk(choices) THEN choices ELSE
    LET first == Index0(choices.ok)
    IN  IF ~IsOk(first) THEN first ELSE
    LET message == GetAttr(first.ok, "message", JDict({}))
    IN  IF ~IsOk(message) THEN message ELSE
    LET content == GetAttr(message.ok, "content", JStr(<< >>))
    IN  IF ~IsOk(content) THEN content ELSE
    LET stripped == StripAttr(content.ok)
    IN  IF ~IsOk(stripped) THEN stripped
        ELSE IF stripped.ok = << >> THEN Exc("ValueError")
        ELSE stripped

\* Mutant: IndexError is not caught.
CaughtKinds_NoIndexError == {"KeyError", "ValueError"}

\* except (IndexError, KeyError, ValueError)
CaughtKinds == {"IndexError", "KeyError", "ValueError"}

\* The exception that leaves the try statement when its body raises kind.
ParseError(kind) ==
    IF kind \in CaughtKinds THEN Raised("RuntimeError", kind)
    ELSE Raised(kind, "parse")

-----------------------------------------------------------------------------
(* generate_test_cases: cleaning the content                               *)

\* Mutant: a line that is a comment already is not left as it is.
KeptPrefixes_NoHash ==
    { << BT, BT, BT >>, << "f", "r", "o", "m" >>,
      << "i", "m", "p", "o", "r", "t" >>, << "d", "e", "f" >>,
      << "a", "s", "s", "e", "r", "t" >> }

\* The prefixes of a line that is left as it is.
KeptPrefixes ==
    { << "#" >>, << BT, BT, BT >>, << "f", "r", "o", "m" >>,
      << "i", "m", "p", "o", "r", "t" >>, << "d", "e", "f" >>,
      << "a", "s", "s", "e", "r", "t" >> }

\* One line of the generator expression: a non-blank line that starts with
\* none of the kept prefixes becomes a comment.
CommentLine(line) ==
    IF Strip(line) # << >> /\ ~(\E p \in KeptPrefixes : StartsWith(Strip(line), p))
    THEN << "#", " " >> \o line
    ELSE line

\* "\n".join(... for line in test_code.splitlines())
CommentLines(text) ==
    LET lines == SplitLines(text)
    IN  Join(<< NL >>, [i \in 1..Len(lines) |-> CommentLine(lines[i])])

\* The longest run of \w characters s starts with.
RECURSIVE WordLen(_)
WordLen(s) ==
    IF s # << >> /\ Head(s) \in WordChars THEN 1 + WordLen(Tail(s)) ELSE 0

\* re.sub(r"```(\w+)?", "", s): every match, found left to right, is removed.
RECURSIVE SubFences(_)
SubFences(s) ==
    IF s = << >> THEN << >>
    ELSE IF StartsWith(s, << BT, BT, BT >>)
         THEN SubFences(Drop(s, 3 + WordLen(Drop(s, 3))))
    ELSE << Head(s) >> \o SubFences(Tail(s))

\* s.replace("bash", ""): every occurrence, found left to right, is removed.
RECURSIVE ReplaceBash(_)
ReplaceBash(s) ==
    IF s = << >> THEN << >>
    ELSE IF StartsWith(s, << "b", "a", "s", "h" >>) THEN ReplaceBash(Drop(s, 4))
    ELSE << Head(s) >> \o ReplaceBash(Tail(s))

\* Lines 76 to 84: the text that is written for the content text.
CleanText(text) == Strip(ReplaceBash(Strip(SubFences(CommentLines(text)))))

-----------------------------------------------------------------------------
(* generate_test_cases, step by step                                       *)

AltIdle ==
    /\ api_response = << >>
    /\ segments = << >>
    /\ code_blocks = << >>
    /\ non_code_parts = << >>
    /\ commented_text = << >>
    /\ cleaned_code = << >>

Init ==
    /\ pc = "start"
    /\ src_file \in {"missing", "badutf8", "ok"}
    /\ env_key \in EnvValues
    /\ api_key = << >>
    /\ attempt = 0
    /\ outcomes = << >>
    /\ sleeps = 0
    /\ response = NoResponse
    /\ test_code = << >>
    /\ out_file0 \in {NoFile, OldFile}
    /\ out_file = out_file0
    /\ writes = 0
    /\ error = NoError
    /\ result = ""
    /\ AltIdle

\* raise: the exception leaves generate_test_cases.
Raise(e) ==
    /\ pc' = "raised"
    /\ error' = e

\* Lines 33 to 39: the file must exist and is read as UTF-8.
ReadSource ==
    /\ pc = "start"
    /\ IF src_file = "missing" THEN Raise(Raised("FileNotFoundError", "exists"))
       ELSE IF src_file = "badutf8" THEN Raise(Raised("UnicodeDecodeError", "read"))
       ELSE pc' = "get_api_key" /\ UNCHANGED error
    /\ UNCHANGED << src_file, env_key, api_key, attempt, outcomes, sleeps,
                    response, test_code, out_file, out_file0, writes, result >>
    /\ UNCHANGED altVars

\* Line 42: api_key = get_api_key(); its ValueError is not caught. Lines 45
\* to 51 then build the payload and the headers, which no later step reads
\* but requests.post.
GetApiKey ==
    /\ pc = "get_api_key"
    /\ IF ApiKeyMissing(env_key)
       THEN Raise(Raised("ValueError", "get_api_key")) /\ UNCHANGED api_key
       ELSE pc' = "loop" /\ api_key' = ReadApiKey(env_key) /\ UNCHANGED error
    /\ UNCHANGED << src_file, env_key, attempt, outcomes, sleeps, response,
                    test_code, out_file, out_file0, writes, result >>
    /\ UNCHANGED altVars

\* Lines 53 to 57 and 60 to 61: the next attempt of the loop posts the
\* request; a response that is not rate limited breaks out of the loop.
Post ==
    /\ pc = "loop"
    /\ attempt < MAX_RETRIES
    /\ attempt' = attempt + 1
    /\ \E o \in PostOutcomes :
        /\ outcomes' = Append(outcomes, o)
        /\ IF ~HasStatus(o)
           THEN Raise(Raised(o.exc, "post")) /\ UNCHANGED response
           ELSE /\ response' = [status |-> o.status, body |-> Unread]
                /\ pc' = IF IsRateLimited(o.status) THEN "sleep" ELSE "check"
                /\ UNCHANGED error
    /\ UNCHANGED << src_file, env_key, api_key, sleeps, test_code, out_file,
                    out_file0, writes, result >>
    /\ UNCHANGED altVars

\* Lines 58 to 59: time.sleep(5), then back to the head of the loop.
Sleep ==
    /\ pc = "sleep"
    /\ sleeps' = sleeps + 1
    /\ pc' = "loop"
    /\ UNCHANGED << src_file, env_key, api_key, attempt, outcomes, response,
                    test_code, out_file, out_file0, writes, error, result >>
    /\ UNCHANGED altVars

\* Line 53: range(1, MAX_RETRIES + 1) is used up and the loop ends.
LoopExhausted ==
    /\ pc = "loop"
    /\ attempt = MAX_RETRIES
    /\ pc' = "check"
    /\ UNCHANGED genVars
    /\ UNCHANGED altVars

\* Mutant: a run that used its last attempt gives up, whatever the answer.
CheckStatus_GiveUp ==
    /\ pc = "check"
    /\ IF RaisesForStatus(response.status) \/ attempt = MAX_RETRIES
       THEN Raise(Raised("HTTPError", "raise_for_status"))
       ELSE pc' = "parse" /\ UNCHANGED error
    /\ UNCHANGED << src_file, env_key, api_key, attempt, outcomes, sleeps,
                    response, test_code, out_file, out_file0, writes, result >>
    /\ UNCHANGED altVars

\* Line 64: response.raise_for_status()
CheckStatus ==
    /\ pc = "check"
    /\ IF RaisesForStatus(response.status)
       THEN Raise(Raised("HTTPError", "raise_for_status"))
       ELSE pc' = "parse" /\ UNCHANGED error
    /\ UNCHANGED << src_file, env_key, api_key, attempt, outcomes, sleeps,
                    response, test_code, out_file, out_file0, writes, result >>
    /\ UNCHANGED altVars

\* Lines 66 to 73: the body is read and the content taken out of it.
ParseResponse ==
    /\ pc = "parse"
    /\ \E body \in Bodies :
        /\ response' = [response EXCEPT !.body = body]
        /\ LET r == ExtractContent(body)
           IN  IF IsOk(r)
               THEN test_code' = r.ok /\ pc' = "clean" /\ UNCHANGED error
               ELSE Raise(ParseError(r.exc)) /\ UNCHANGED test_code
    /\ UNCHANGED << src_file, env_key, api_key, attempt, outcomes, sleeps,
                    out_file, out_file0, writes, result >>
    /\ UNCHANGED altVars

\* Lines 76 to 84: comments for the explanations, markdown removed.
CleanTestCode ==
    /\ pc = "clean"
    /\ test_code' = CleanText(test_code)
    /\ pc' = "write"
    /\ UNCHANGED << src_file, env_key, api_key, attempt, outcomes, sleeps,
                    response, out_file, out_file0, writes, error, result >>
    /\ UNCHANGED altVars

\* Lines 87 to 92: the test file is written and its path returned.
WriteTestFile ==
    /\ pc = "write"
    /\ out_file' = FileWith(test_code)
    /\ writes' = writes + 1
    /\ result' = "test_path"
    /\ pc' = "done"
    /\ UNCHANGED << src_file, env_key, api_key, attempt, outcomes, sleeps,
                    response, test_code, out_file0, error >>
    /\ UNCHANGED altVars

Next ==
    \/ ReadSource
    \/ GetApiKey
    \/ Post
    \/ Sleep
    \/ LoopExhausted
    \/ CheckStatus
    \/ ParseResponse
    \/ CleanTestCode
    \/ WriteTestFile

Spec == Init /\ [][Next]_vars

-----------------------------------------------------------------------------
(* utils.clean_api_response                                                *)

Fence == << BT, BT, BT >>

\* The text ```python, which opens a block the two patterns match.
PythonFence == Fence \o << "p", "y", "t", "h", "o", "n" >>

\* Three double quotes.
TripleQuote == << "\"", "\"", "\"" >>

\* The number of characters of s before the first occurrence of p in s,
\* which the caller knows to exist.
RECURSIVE IndexOf(_, _)
IndexOf(s, p) == IF StartsWith(s, p) THEN 0 ELSE 1 + IndexOf(Tail(s), p)

\* Whether ```python.*?``` matches at the start of s (with DOTALL): the
\* opening text, then anything up to the first fence after it.
MatchesBlock(s) ==
    StartsWith(s, PythonFence) /\ Contains(Drop(s, Len(PythonFence)), Fence)

\* The number of characters of s before the last occurrence of p in s.
RECURSIVE LastIndexOf(_, _)
LastIndexOf(s, p) ==
    IF Contains(Tail(s), p) THEN 1 + LastIndexOf(Tail(s), p) ELSE 0

\* Mutant: the group is greedy, (.*), and runs to the last fence.
BlockBody_Greedy(s) ==
    LET rest == Drop(s, Len(PythonFence))
    IN  Take(rest, LastIndexOf(rest, Fence))

\* What (.*?) captures of a match at the start of s.
BlockBody(s) ==
    LET rest == Drop(s, Len(PythonFence))
    IN  Take(rest, IndexOf(rest, Fence))

\* What follows the match at the start of s.
AfterBlock(s) ==
    LET rest == Drop(s, Len(PythonFence))
    IN  Drop(rest, IndexOf(rest, Fence) + Len(Fence))

\* re.findall(r"```python(.*?)```", s, re.DOTALL)
RECURSIVE FindAllBlocks(_)
FindAllBlocks(s) ==
    IF s = << >> THEN << >>
    ELSE IF MatchesBlock(s) THEN << BlockBody(s) >> \o FindAllBlocks(AfterBlock(s))
    ELSE FindAllBlocks(Tail(s))

\* re.split(r"```python.*?```", s, flags=re.DOTALL), cur being the part
\* read so far.
RECURSIVE SplitFrom(_, _)
SplitFrom(s, cur) ==
    IF s = << >> THEN << cur >>
    ELSE IF MatchesBlock(s) THEN << cur >> \o SplitFrom(AfterBlock(s), << >>)
    ELSE SplitFrom(Tail(s), Append(cur, Head(s)))

SplitBlocks(s) == SplitFrom(s, << >>)

\* One part of the generator expression: a non-blank part, stripped, between
\* triple quotes; nothing for a blank part.
CommentPart(part) ==
    IF Strip(part) # << >> THEN TripleQuote \o Strip(part) \o TripleQuote
    ELSE << >>

\* Lines 118 to 121
CommentParts(parts) ==
    Join(<< NL >>, [i \in 1..Len(parts) |-> CommentPart(parts[i])])

\* Lines 124 and 126: the documentation, a blank line, the code.
Combine(commented, blocks) ==
    Strip(Strip(commented) \o << NL, NL >> \o Strip(Join(<< NL, NL >>, blocks)))

\* The spans a reply is put together from.
Prose(t) == [kind |-> "prose", text |-> t]

Code(t) == [kind |-> "code", text |-> t]

ProseTexts ==
    { << >>, << NL >>, << "H", "i", ":", NL >>, << " ", "o", "k" >>,
      << "a", NL, "b" >>, << BT, "x", BT >>,
      Fence \o << "s", "h", NL, "l", "s", NL >> \o Fence }

CodeTexts ==
    { << >>, << NL >>, << NL, "a", "s", "s", "e", "r", "t", " ", "1", NL >>,
      << NL, " ", "x", NL, "y" >>, << "z" >> }

SegmentValues == {Prose(t) : t \in ProseTexts} \cup {Code(t) : t \in CodeTexts}

\* The reply text of a sequence of spans: prose as it is, code between
\* ```python and ```.
RenderSegment(g) ==
    IF g.kind = "code" THEN PythonFence \o g.text \o Fence ELSE g.text

Render(segs) == Flatten([i \in 1..Len(segs) |-> RenderSegment(segs[i])])

GenIdle ==
    /\ src_file = "ok"
    /\ env_key = EnvUnset
    /\ api_key = << >>
    /\ attempt = 0
    /\ outcomes = << >>
    /\ sleeps = 0
    /\ response = NoResponse
    /\ test_code = << >>
    /\ out_file0 = NoFile
    /\ out_file = NoFile
    /\ writes = 0
    /\ error = NoError
    /\ result = ""

InitAlt ==
    /\ pc = "alt_start"
    /\ segments \in SeqsUpTo(SegmentValues, MaxSegments)
    /\ api_response = Render(segments)
    /\ code_blocks = << >>
    /\ non_code_parts = << >>
    /\ commented_text = << >>
    /\ cleaned_code = << >>
    /\ GenIdle

\* Line 106
FindCodeBlocks ==
    /\ pc = "alt_start"
    /\ code_blocks' = FindAllBlocks(api_response)
    /\ pc' = "alt_split"
    /\ UNCHANGED << api_response, segments, non_code_parts, commented_text,
                    cleaned_code >>
    /\ UNCHANGED genVars

\* Line 109
SplitNonCode ==
    /\ pc = "alt_split"
    /\ non_code_parts' = SplitBlocks(api_response)
    /\ pc' = "alt_comment"
    /\ UNCHANGED << api_response, segments, code_blocks, commented_text,
                    cleaned_code >>
    /\ UNCHANGED genVars

\* Lines 118 to 121
CommentNonCode ==
    /\ pc = "alt_comment"
    /\ commented_text' = CommentParts(non_code_parts)
    /\ pc' = "alt_combine"
    /\ UNCHANGED << api_response, segments, code_blocks, non_code_parts,
                    cleaned_code >>
    /\ UNCHANGED genVars

\* Lines 124 to 126
CombineCleaned ==
    /\ pc = "alt_combine"
    /\ cleaned_code' = Combine(commented_text, code_blocks)
    /\ pc' = "alt_done"
    /\ UNCHANGED << api_response, segments, code_blocks, non_code_parts,
                    commented_text >>
    /\ UNCHANGED genVars

NextAlt ==
    \/ FindCodeBlocks
    \/ SplitNonCode
    \/ CommentNonCode
    \/ CombineCleaned

SpecAlt == InitAlt /\ [][NextAlt]_vars

-----------------------------------------------------------------------------
(* Properties                                                              *)

RateLimited == Answered(429)

\* The number of HTTP POSTs issued so far.
Posts == Len(outcomes)

Is2xx(status) == 200 <= status /\ status < 300

Bash == << "b", "a", "s", "h" >>

\* Every POST so far was answered with 429.
AllRateLimited == \A i \in 1..Posts : outcomes[i] = RateLimited

\* C1: in a run that reaches the HTTP stage at least 1 and at most
\* MAX_RETRIES POSTs are issued, and every POST but the last one was
\* answered with 429: a POST follows only a 429 response, and none follows
\* the first response that is not 429.
C1_BoundedRetry ==
    /\ Posts <= MAX_RETRIES
    /\ (api_key # << >> /\ pc # "loop") => Posts >= 1
    /\ \A i \in 1..(Posts - 1) : outcomes[i] = RateLimited

\* C1: three POSTs were issued and the loop is over.
C1_Witness == pc = "check" /\ Posts = MAX_RETRIES /\ response.status = 200

\* C2: the output file is written at most once, as the last step, only
\* after a final response with a 2xx status and non-empty content; a run
\* that raises leaves the output file as it was.
C2_NoWriteOnFailure ==
    /\ writes <= 1
    /\ out_file # out_file0 => writes = 1
    /\ writes = 1 =>
          /\ pc = "done"
          /\ Is2xx(response.status)
          /\ IsOk(ExtractContent(response.body))
    /\ pc = "raised" => out_file = out_file0 /\ writes = 0

\* C3: when every response is 429 the run makes exactly MAX_RETRIES POSTs
\* and then raises the HTTP error; it makes no further POST, never gets to
\* parsing or writing, and returns no path.
C3_AlwaysRateLimited ==
    (Posts >= 1 /\ AllRateLimited) =>
        /\ pc \in {"sleep", "loop", "check", "raised"}
        /\ pc \in {"check", "raised"} => Posts = MAX_RETRIES
        /\ pc = "raised" => error = Raised("HTTPError", "raise_for_status")
        /\ result = ""
        /\ writes = 0

\* C3: the run that got 429 three times has raised.
C3_Witness ==
    pc = "raised" /\ outcomes = << RateLimited, RateLimited, RateLimited >>

\* C4: when the responses are 429, 429 and then 200 with non-empty content,
\* the run makes exactly 3 POSTs, raises nothing, and ends having written
\* the test file and returned its path.
C4_TwoRetriesThenSuccess ==
    (outcomes = << RateLimited, RateLimited, Answered(200) >>
        /\ (response.body # Unread => IsOk(ExtractContent(response.body)))) =>
        /\ Posts = MAX_RETRIES
        /\ pc \in {"check", "parse", "clean", "write", "done"}
        /\ pc # "done" => writes = 0 /\ result = ""
        /\ pc = "done" =>
              /\ result = "test_path"
              /\ writes = 1
              /\ out_file = FileWith(test_code)
        /\ error = NoError

\* C4: the run that got 429, 429, 200 has returned.
C4_Witness ==
    pc = "done" /\ outcomes = << RateLimited, RateLimited, Answered(200) >>

\* The environment variable is unset, empty or made of white space only.
KeyAbsent(env) ==
    ~env.set \/ \A i \in 1..Len(env.value) : env.value[i] \in Whitespace

\* C5: with the variable unset, empty or white space only, and an input file
\* that can be read, the run ends with the ValueError of get_api_key and no
\* POST is ever issued; in every run a POST is issued only with a key.
C5_NoKeyNoRequest ==
    /\ (KeyAbsent(env_key) /\ src_file = "ok") =>
          /\ Posts = 0
          /\ pc \in {"start", "get_api_key", "raised"}
          /\ pc = "raised" => error = Raised("ValueError", "get_api_key")
    /\ Posts > 0 => api_key # << >>

\* C5: a run with a white-space-only key has raised.
C5_Witness ==
    /\ pc = "raised"
    /\ env_key = EnvSet(<< NL, " " >>)
    /\ error.from = "get_api_key"

\* A text made of white space only.
Blank(t) == \A i \in 1..Len(t) : t[i] \in Whitespace

\* The JSON object j has the key.
HasKey(j, key) == \E p \in j.dict : p[1] = key

\* The body is a JSON object in which the path choices[0].message.content
\* ends at an absent key, an empty choices list or blank content.
AbsentOrEmpty(body) ==
    /\ DOMAIN body = {"json"}
    /\ IsDict(body.json)
    /\ \/ ~HasKey(body.json, "choices")
       \/ LET choices == Get(body.json, "choices", JNull)
          IN  /\ IsList(choices)
              /\ \/ choices.list = << >>
                 \/ LET first == choices.list[1]
                    IN  /\ IsDict(first)
                        /\ \/ ~HasKey(first, "message")
                           \/ LET message == Get(first, "message", JNull)
                              IN  /\ IsDict(message)
                                  /\ \/ ~HasKey(message, "content")
                                     \/ LET content == Get(message, "content", JNull)
                                        IN  IsStr(content) /\ Blank(content.str)

\* C6: once a 2xx response whose body lacks choices, choices[0], message or
\* content, or has blank content, has been parsed, the run has raised
\* RuntimeError and has written nothing.
C6_MalformedIsRuntimeError ==
    (Is2xx(response.status) /\ AbsentOrEmpty(response.body)) =>
        /\ pc = "raised"
        /\ error.kind = "RuntimeError"
        /\ writes = 0
        /\ out_file = out_file0

\* C6: a 2xx response with an empty choices list has been parsed.
C6_Witness ==
    /\ pc = "raised"
    /\ response.status = 201
    /\ response.body = JsonBody(JDict({<< "choices", JList(<< >>) >>}))

\* C7: the cleaned text holds no fence marker and no "bash", and neither
\* starts nor ends with white space.
C7_NoArtifactsLeft ==
    pc \in {"write", "done"} =>
        /\ ~Contains(test_code, Fence)
        /\ ~Contains(test_code, Bash)
        /\ test_code = Strip(test_code)

\* C8: cleaning the cleaned text again gives the same text.
C8_Idempotent == pc \in {"write", "done"} => CleanText(test_code) = test_code

\* The content the cleaning started from.
RawContent == ExtractContent(response.body).ok

\* C8, amended: when the content holds no fence marker and no "bash",
\* cleaning the cleaned text again gives the same text.
C8_IdempotentWithoutArtifacts ==
    (pc \in {"write", "done"}
        /\ ~Contains(RawContent, Fence)
        /\ ~Contains(RawContent, Bash)) =>
        CleanText(test_code) = test_code

\* C8: a content without fence marker and "bash" whose explanation line was
\* made a comment has been written.
C8_Witness ==
    /\ pc = "done"
    /\ RawContent = << "x", NL, "d", "e", "f" >>
    /\ test_code = << "#", " ", "x", NL, "d", "e", "f" >>

\* C10: every sleep is followed by another POST: once the loop is over, a
\* run that made n POSTs has slept n - 1 times.
C10_SleepThenRetry ==
    (Posts >= 1 /\ pc \notin {"sleep", "loop"}) => sleeps = Posts - 1

-----------------------------------------------------------------------------
(* Properties of clean_api_response                                        *)

\* The prose spans of a reply: what stands before, between and after its
\* code blocks.
RECURSIVE SpansFrom(_, _)
SpansFrom(segs, cur) ==
    IF segs = << >> THEN << cur >>
    ELSE IF Head(segs).kind = "code"
         THEN << cur >> \o SpansFrom(Tail(segs), << >>)
    ELSE SpansFrom(Tail(segs), cur \o Head(segs).text)

ProseSpans == SpansFrom(segments, << >>)

CodeSpans == SelectSeq(segments, LAMBDA g : g.kind = "code")

\* The lines of a text that are not blank, each without the white space at
\* its ends.
TextLines(t) ==
    LET lines == SplitLines(t)
    IN  SelectSeq([i \in 1..Len(lines) |-> Strip(lines[i])],
                  LAMBDA l : l # << >>)

\* The lines of the non-blank prose spans, each span between triple quotes.
RECURSIVE DocLines(_)
DocLines(spans) ==
    IF spans = << >> THEN << >>
    ELSE (IF Blank(Head(spans)) THEN << >>
          ELSE TextLines(TripleQuote \o Strip(Head(spans)) \o TripleQuote))
         \o DocLines(Tail(spans))

\* The lines of the code blocks.
RECURSIVE CodeLines(_)
CodeLines(blocks) ==
    IF blocks = << >> THEN << >>
    ELSE TextLines(Head(blocks).text) \o CodeLines(Tail(blocks))

\* No prose span of the reply holds a fence marker.
ProseWithoutFence == \A i \in 1..Len(ProseSpans) : ~Contains(ProseSpans[i], Fence)

\* C9: for a reply made of prose and python-tagged blocks, the result is,
\* line by line (blank lines and the white space at the ends of a line
\* aside), every non-blank prose span in order, each between triple quotes,
\* and then the content of every block in order; it holds no fence marker.
C9_DocumentationThenCode ==
    (pc = "alt_done" /\ ProseWithoutFence) =>
        /\ TextLines(cleaned_code) = DocLines(ProseSpans) \o CodeLines(CodeSpans)
        /\ ~Contains(cleaned_code, Fence)

\* C9: a reply of prose, a block and prose again has been cleaned.
C9_Witness ==
    /\ pc = "alt_done"
    /\ segments = << Prose(<< "H", "i", ":", NL >>),
                     Code(<< NL, "a", "s", "s", "e", "r", "t", " ", "1", NL >>),
                     Prose(<< " ", "o", "k" >>) >>
    /\ cleaned_code # << >>

====
